---- MODULE Spec2Model ----
(***************************************************************************)
(* Background sync orchestrator of the restaurant management backend:      *)
(* SyncService (backend/sync_service.py) on top of the sqlite tables of    *)
(* DatabaseManager (backend/database.py) and the forecaster entry point    *)
(* PredictionEngine.generate_predictions (backend/ml_predictions.py).      *)
(*                                                                         *)
(* The service runs on one asyncio event loop.  A coroutine runs without   *)
(* interruption between two suspension points; the only suspension points  *)
(* of the service are the two asyncio.sleep calls of _sync_loop and the    *)
(* `await self.sync_task` of stop_auto_sync.  manual_sync and everything   *)
(* it awaits never suspend, so one sync cycle is one atomic step.          *)
(***************************************************************************)
EXTENDS Integers, Sequences, FiniteSets, TLC

\* ------------------------------------------------------------- bounds
MaxTasks == 2        \* loop tasks created by start_auto_sync over a run
MaxCycles == 2       \* sync cycles executed over a run with stop calls
MaxRunCycles == 4    \* sync cycles executed over a run without stop calls
MaxPred == 1         \* forecasts one generate_predictions call produces
MaxObs == 5          \* observations of one dish and period in the history
MaxCalls == 2        \* calls of generate_predictions over a run

\* ------------------------------------------------- program constants
InitialInterval == 3600        \* self.sync_interval = 3600
BackoffSeconds == 60           \* await asyncio.sleep(60)
SecondsPerMinute == 60         \* minutes * 60, sync_interval // 60
RecentErrors == 5              \* self.errors[-5:]
FirstDayAhead == 1             \* range(1, 4)
LastDayAhead == 3              \* range(1, 4)
PredictionDays == 30           \* timedelta(days=30)
TransactionDays == 90          \* timedelta(days=90)
MinObservations == 5           \* if len(dish_data) < 5
DefaultDemand == 5             \* ... if len(dish_data) > 0 else 5
MinDemand == 1                 \* max(1, ...)
MinPrep == 2                   \* max(2, ...)
FallbackSafety == 12           \* avg_demand * 1.2, in tenths
FallbackConfidence == 600      \* 'confidence': 60.0, in tenths of a percent
ConfidenceFloor == 500         \* max(50.0, ...), in tenths of a percent
ConfidenceCeiling == 950       \* min(95.0, ...), in tenths of a percent
HighConfidence == 800          \* if confidence > 80, in tenths of a percent
SafetyHigh == 12               \* safety_multiplier 1.2, in tenths
SafetyLow == 13                \* safety_multiplier 1.3, in tenths
WeekendFrom == 5               \* dow >= 5
TrendWindow == 10              \* historical_data.tail(10)
TrendMin == 5                  \* if len(recent_data) >= 5
MaxFactors == 4                \* factors[:4]

VARIABLES
    is_running,              \* SyncService.is_running
    sync_task,               \* SyncService.sync_task: 0 (None) or a task id
    last_sync,               \* SyncService.last_sync: 0 (None) or a timestamp
    sync_interval,           \* SyncService.sync_interval, seconds
    errors,                  \* SyncService.errors
    predictions,             \* table predictions, in rowid order
    inventory_transactions,  \* table inventory_transactions: rows [id, day]
    sync_log,                \* table sync_log, in insertion order
    log_seq,                 \* AUTOINCREMENT counter of sync_log.id
    tasks,                   \* the asyncio tasks running _sync_loop
    stops,                   \* stop_auto_sync calls suspended at their await
    now,                     \* datetime.now(): a timestamp, one per cycle
    today,                   \* the calendar day of datetime.now()
    cycle,                   \* what the most recent manual_sync did
    errlog,                  \* every error string ever appended, in order
    last,                    \* the operation executed last
    frames,                  \* the manual_sync calls in progress, per caller
    writes,                  \* every write to SyncStatus and sync_log, in order
    history,                 \* what get_historical_order_data returns
    prophet,                 \* what fitting the model to a series gives
    result                   \* what the last generate_predictions returned

vars == <<is_running, sync_task, last_sync, sync_interval, errors,
          predictions, inventory_transactions, sync_log, log_seq, tasks, stops,
          now, today, cycle, errlog, last, frames, writes, history, prophet,
          result>>

awaits == <<frames, writes>>
forecaster == <<history, prophet, result>>

service == <<is_running, sync_task, last_sync, sync_interval, errors>>
tables == <<predictions, inventory_transactions, sync_log, log_seq>>

TaskIds == 1..MaxTasks
\* The callers of manual_sync: 0 is the handler of POST /api/sync, t is the
\* loop task t.
Callers == 0..MaxTasks
DaysAhead == FirstDayAhead..LastDayAhead
Finished == {"done", "cancelled"}

\* ------------------------------------------------------------ inputs
\* What the data store and the forecaster do during one cycle.
\*   a: get_daily_sales raises, returns None, or returns a summary
\*   f: per day offset, what generate_predictions meets
\*   c: whether a retention DELETE (or the commit) raises
\*   l: whether the INSERT into sync_log raises
AnalyticsOutcomes == {"raise", "none", "data"}
ForecastOutcomes ==
    {[kind |-> "raise", n |-> 0], [kind |-> "nodata", n |-> 0]}
    \cup {[kind |-> k, n |-> n] : k \in {"savefail", "ok"}, n \in 1..MaxPred}
CleanupOutcomes == {"ok", "raise"}
LogOutcomes == {"ok", "raise"}
CycleInputs ==
    [a : AnalyticsOutcomes, f : [DaysAhead -> ForecastOutcomes],
     c : CleanupOutcomes, l : LogOutcomes]
\* The inputs of the cycles of a long run: the sales read returns a
\* summary or raises, every forecast call saves one row, the retention
\* deletes and the sync-log insert succeed.
LoopInputs ==
    {in \in CycleInputs :
        /\ in.a # "none"
        /\ in.f = [d \in DaysAhead |-> [kind |-> "ok", n |-> 1]]
        /\ in.c = "ok"
        /\ in.l = "ok"}
\* The same, and the cycle whose retention step raises after the sales
\* read returned a summary.
FrameInputs ==
    {in \in CycleInputs :
        /\ in.a # "none"
        /\ in.f = [d \in DaysAhead |-> [kind |-> "ok", n |-> 1]]
        /\ in.c = "raise" => in.a = "data"
        /\ in.l = "ok"}

NoCycle ==
    [by |-> -1, in |-> << >>, steps |-> << >>, calls |-> << >>,
     analytics |-> 0, predictions |-> 0, cleanup |-> 0,
     status |-> "none", raised |-> "", at |-> 0]

\* A caller that is not inside manual_sync; n counts its calls.
NoFrame == [pc |-> "idle", yielded |-> FALSE, n |-> 0, cy |-> NoCycle]

\* A task that has not been created yet.
NoTask == [pc |-> "absent", must_cancel |-> FALSE, delay |-> 0, cycles |-> 0]
\* The arguments set_sync_interval is called with.
MinutesArgs == {0, 2}

\* ------------------------------------------------- the forecaster
\* The second argument taken as it is, without the floor max() puts.
Unclamped(a, b) == b

\* max(a, b) of two numbers
Max(a, b) == IF a > b THEN a ELSE b

RECURSIVE Sum(_)
Sum(seq) == IF seq = << >> THEN 0 ELSE Head(seq) + Sum(Tail(seq))

\* The fallback of _predict_dish_demand for a series (the column y of the
\* rows of one dish and period) of fewer than 5 observations.  avg_demand
\* is the mean of the series, or 5 for an empty one, kept as the fraction
\* num / den; int() of a non-negative number is the floor.  dish_name is
\* not a column of the table and is left out.
FallbackPrediction(dish_id, period, series, target_date) ==
    LET num == IF Len(series) > 0 THEN Sum(series) ELSE DefaultDemand
        den == IF Len(series) > 0 THEN Len(series) ELSE 1
    IN  [dish_id |-> dish_id,
         period |-> period,
         predicted_demand |-> Max(MinDemand, num \div den),
         confidence |-> FallbackConfidence,
         recommended_prep |->
             Max(MinPrep, (num * FallbackSafety) \div (den * 10)),
         factors |-> <<"Limited historical data", "Fallback average">>,
         prediction_date |-> target_date]

\* ------------------------------------------- the predictions table
\* The columns of UNIQUE(dish_id, prediction_date, period).
Key(r) == <<r.dish_id, r.prediction_date, r.period>>

\* INSERT without the conflict clause on a table without the constraint.
PlainInsert(table, row) == Append(table, row)

\* INSERT OR REPLACE INTO predictions: the row that holds the key of the
\* new row is deleted, the new row gets the next rowid.
InsertOrReplace(table, row) ==
    LET other(r) == Key(r) # Key(row)
    IN  Append(SelectSeq(table, other), row)

\* cursor.execute for the first upto rows of the batch, in order.
RECURSIVE ExecuteAll(_, _, _)
ExecuteAll(table, rows, upto) ==
    IF upto = 0 THEN table
    ELSE InsertOrReplace(ExecuteAll(table, rows, upto - 1), rows[upto])

\* A connection in autocommit mode: what was executed stays.
RollbackKeeps(committed, work) == work

\* conn.rollback(), or conn.close() without a commit: the connection's
\* uncommitted work is dropped.
Rollback(committed, work) == committed

\* save_predictions(rows): one transaction; fail_at = 0: every statement
\* and the commit succeed; fail_at = k: the k-th execute (or, past the
\* last row, the commit) raises after the rows before it were executed.
SavePredictions(table, rows, fail_at) ==
    IF fail_at = 0
    THEN [raised |-> FALSE, table |-> ExecuteAll(table, rows, Len(rows))]
    ELSE [raised |-> TRUE,
          table |-> Rollback(table, ExecuteAll(table, rows, fail_at - 1))]

\* ------------------------------------------- the forecaster, in full
\* The periods generate_predictions forecasts, in the order of its loop,
\* and the values of the column period of get_historical_order_data.
Periods == <<"morning", "afternoon", "evening">>
Buckets == {"morning", "afternoon", "evening", "other"}

\* The dishes and the quantities (SUM(oi.quantity)) of the order history.
Dishes == {1, 2}
Quantities == {1, 3, 4, 5}
\* The series of the model: every series too short for the model path,
\* and the longer ones that never fall or never rise.
Monotone(s) ==
    \/ \A i \in 1..(Len(s) - 1) : s[i] <= s[i + 1]
    \/ \A i \in 1..(Len(s) - 1) : s[i] >= s[i + 1]
Series ==
    {s \in UNION {[1..n -> Quantities] : n \in 0..MaxObs} :
        Len(s) < MinObservations \/ Monotone(s)}

\* The order history as get_historical_order_data returns it: per dish and
\* bucket the column y of its rows in the order of ds, the rows of a
\* series of n being those of the n days before today; weekday and month
\* are the calendar of the run: the weekday of today (0 is Monday) and the
\* month the target dates lie in.
EmptyHistory ==
    [series |-> [d \in Dishes |-> [b \in Buckets |-> << >>]],
     weekday |-> 0, month |-> 1]

\* The months the target dates lie in: one without a season factor and one
\* of the summer.
Months == {4, 7}

\* The histories of the model: the morning series of dish 1 is any series;
\* dish 1 may have a row of the early hours; dish 2 is absent or has two
\* evening rows; today is a Thursday, so that tomorrow is a weekday and
\* the day after is a weekend day.
Histories ==
    {[series |->
        [d \in Dishes |->
            [b \in Buckets |->
                CASE d = 1 /\ b = "morning" -> m
                  [] d = 1 /\ b = "other" -> IF o THEN <<3>> ELSE << >>
                  [] d = 2 /\ b = "evening" -> IF e THEN <<4, 5>> ELSE << >>
                  [] OTHER -> << >>]],
      weekday |-> 3, month |-> mo] :
        m \in Series, o \in BOOLEAN, e \in BOOLEAN, mo \in Months}

\* The histories of the runs that call the forecaster more than once: no
\* morning row of dish 1, four rows, or five, no row of the early hours,
\* and target dates in July.
SampleHistories ==
    {h \in Histories :
        /\ h.series[1]["morning"] \in {<< >>, <<3, 4, 3, 5>>, <<3, 4, 4, 5, 5>>}
        /\ h.series[1]["other"] = << >>
        /\ h.month = 7}

\* What fitting the model to a series of at least 5 observations gives:
\* an exception, or the point estimate yhat for the target date, in tenths.
Fits == {[kind |-> "error", yhat |-> 0]}
        \cup {[kind |-> "ok", yhat |-> y] : y \in {-5, 46}}

\* Half the width of the interval yhat_lower..yhat_upper a call of
\* model.predict returns, in tenths: the bounds are percentiles of 100
\* Monte Carlo samples drawn from numpy's global generator, which the
\* program never seeds, so they vary from call to call.
HalfWidths == {4, 60}

\* The target dates generate_predictions is called with: tomorrow (its
\* default) and the day after.
TargetDays == {FirstDayAhead, FirstDayAhead + 1}

DayOfWeek(h, date, day) == (h.weekday + (date - day)) % 7
DowNames == <<"Monday", "Tuesday", "Wednesday", "Thursday", "Friday",
              "Saturday", "Sunday">>

\* The positions of a series whose ds is a weekend day / a weekday.
WeekendRows(h, series, day) ==
    {i \in DOMAIN series :
        DayOfWeek(h, day - (Len(series) - i + 1), day) >= WeekendFrom}
WeekdayRows(h, series, day) == DOMAIN series \ WeekendRows(h, series, day)

RECURSIVE SumAt(_, _)
SumAt(series, I) ==
    IF I = {} THEN 0
    ELSE LET i == CHOOSE x \in I : TRUE
         IN  series[i] + SumAt(series, I \ {i})

\* historical_data.tail(10)
Tail10(series) ==
    IF Len(series) > TrendWindow
    THEN SubSeq(series, Len(series) - TrendWindow + 1, Len(series))
    ELSE series

\* An analysis that finds no factor.
NoFactors(h, target_date, period, series, day) == << >>

\* _analyze_prediction_factors.  A mean of no rows is NaN and every
\* comparison with it is false; a > b * 1.2 on means is compared on the
\* fractions.
AnalyzePredictionFactors(h, target_date, period, series, day) ==
    LET dow == DayOfWeek(h, target_date, day)
        we == WeekendRows(h, series, day)
        wd == WeekdayRows(h, series, day)
        both == we # {} /\ wd # {}
        swe == SumAt(series, we) * Cardinality(wd)
        swd == SumAt(series, wd) * Cardinality(we)
        weekend ==
            IF dow >= WeekendFrom
            THEN IF both /\ swe * 10 > swd * 12
                 THEN <<<<"Weekend boost", DowNames[dow + 1]>>>>
                 ELSE IF both /\ swe * 10 < swd * 8
                 THEN <<<<"Weekend decline", DowNames[dow + 1]>>>>
                 ELSE << >>
            ELSE <<<<"Weekday pattern", DowNames[dow + 1]>>>>
        label ==
            CASE period = "morning" -> <<"Breakfast/morning rush">>
              [] period = "afternoon" -> <<"Lunch period demand">>
              [] period = "evening" -> <<"Dinner rush period">>
              [] OTHER -> << >>
        recent == Tail10(series)
        sr == Sum(recent) * Len(series)
        so == Sum(series) * Len(recent)
        trend ==
            IF Len(recent) >= TrendMin
            THEN IF sr * 100 > so * 115 THEN <<"Upward trend detected">>
                 ELSE IF sr * 100 < so * 85 THEN <<"Downward trend detected">>
                 ELSE <<"Stable demand pattern">>
            ELSE << >>
        season ==
            IF h.month \in {12, 1, 2} THEN <<"Winter seasonality">>
            ELSE IF h.month \in {6, 7, 8} THEN <<"Summer seasonality">>
            ELSE << >>
        factors == weekend \o label \o trend \o season
    IN  IF Len(factors) > MaxFactors THEN SubSeq(factors, 1, MaxFactors)
        ELSE factors

\* The model path of _predict_dish_demand for a series of at least 5
\* observations, the fit having given yhat and the call the interval
\* yhat - w .. yhat + w.  Values are in tenths, the mean of the series is
\* the fraction Sum / Len, int() of a positive number is the floor and
\* round(x, 1) the nearest tenth.
ModelPrediction(h, dish_id, period, series, yhat, w, target_date, day) ==
    LET predicted_value == Max(MinDemand * 10, yhat)
        lower_bound == Max(0, yhat - w)
        upper_bound == yhat + w
        interval_width == upper_bound - lower_bound
        sum == Sum(series)
        \* (100 - interval_width / avg_historical * 100) * sum, in tenths
        raw == 1000 * sum - 100 * interval_width * Len(series)
        \* confidence * sum, in tenths
        confidence ==
            Max(ConfidenceFloor * sum,
                IF raw > ConfidenceCeiling * sum THEN ConfidenceCeiling * sum
                ELSE raw)
        safety_multiplier ==
            IF confidence > HighConfidence * sum THEN SafetyHigh ELSE SafetyLow
    IN  [dish_id |-> dish_id,
         period |-> period,
         predicted_demand |-> predicted_value \div 10,
         confidence |-> (2 * confidence + sum) \div (2 * sum),
         recommended_prep |->
             Max(MinPrep, (predicted_value * safety_multiplier) \div 100),
         factors |-> AnalyzePredictionFactors(h, target_date, period, series,
                                              day),
         prediction_date |-> target_date]

\* A forecaster that answers a failed fit with the fallback forecast.
PredictDishDemandFallsBack(h, fits, dish_id, period, target_date, w, day) ==
    LET series == h.series[dish_id][period]
        fit == fits[dish_id][period]
    IN  IF Len(series) < MinObservations \/ fit.kind = "error"
        THEN <<FallbackPrediction(dish_id, period, series, target_date)>>
        ELSE <<ModelPrediction(h, dish_id, period, series, fit.yhat, w,
                               target_date, day)>>

\* _predict_dish_demand: the forecast of one dish and period, or nothing
\* (None) when the model path raises.
PredictDishDemand(h, fits, dish_id, period, target_date, w, day) ==
    LET series == h.series[dish_id][period]
        fit == fits[dish_id][period]
    IN  IF Len(series) < MinObservations
        THEN <<FallbackPrediction(dish_id, period, series, target_date)>>
        ELSE IF fit.kind = "error" THEN << >>
        ELSE <<ModelPrediction(h, dish_id, period, series, fit.yhat, w,
                               target_date, day)>>

\* `if not historical_data`
NoHistoricalData(h) ==
    \A d \in Dishes : \A b \in Buckets : h.series[d][b] = << >>

\* The length of the longest series of a dish: its first row is that many
\* days old.
Longest(h, d) ==
    CHOOSE n \in 0..MaxObs :
        /\ \E b \in Buckets : Len(h.series[d][b]) = n
        /\ \A b \in Buckets : Len(h.series[d][b]) <= n

\* drop_duplicates on the rows ORDER BY ds, dish_id, period: the dishes
\* that have a row, in the order of their first row.
RECURSIVE InOrder(_, _)
InOrder(h, D) ==
    IF D = {} THEN << >>
    ELSE LET first == CHOOSE d \in D : \A e \in D :
                          \/ Longest(h, d) > Longest(h, e)
                          \/ Longest(h, d) = Longest(h, e) /\ d <= e
         IN  <<first>> \o InOrder(h, D \ {first})

UniqueDishes(h) == InOrder(h, {d \in Dishes : Longest(h, d) > 0})

\* The list predictions of generate_predictions: for each dish, for each
\* period, the forecast if there is one.
RECURSIVE PredictionsOf(_, _, _, _, _, _, _)
PredictionsOf(h, fits, dishes, i, target_date, w, day) ==
    IF i > Len(dishes) * Len(Periods) THEN << >>
    ELSE PredictDishDemand(h, fits, dishes[((i - 1) \div Len(Periods)) + 1],
                           Periods[((i - 1) % Len(Periods)) + 1],
                           target_date, w, day)
         \o PredictionsOf(h, fits, dishes, i + 1, target_date, w, day)

\* generate_predictions(target_date) on history h: the dict it returns, or
\* the exception of save_predictions, and the table it leaves.
GeneratePredictionsFrom(h, fits, table, target_date, w, fail_at, day) ==
    LET unique_dishes == UniqueDishes(h)
        preds == PredictionsOf(h, fits, unique_dishes, 1, target_date, w, day)
        saved == IF preds # << >> THEN SavePredictions(table, preds, fail_at)
                 ELSE [raised |-> FALSE, table |-> table]
    IN  IF NoHistoricalData(h)
        THEN [raised |-> FALSE, table |-> table,
              value |-> [message |-> "No historical data available",
                         predictions_generated |-> 0]]
        ELSE IF saved.raised
        THEN [raised |-> TRUE, table |-> saved.table, value |-> << >>]
        ELSE [raised |-> FALSE, table |-> saved.table,
              value |-> [predictions_generated |-> Len(preds),
                         dishes_processed |-> Len(unique_dishes),
                         target_date |-> target_date,
                         message |-> "Predictions generated successfully"]]

\* No call of generate_predictions yet.  Of the last call: whether it
\* raised, and whether save_predictions had executed a row of the batch when
\* it did, the dict it returned, its target date, its list predictions and
\* the number of stored rows its save replaced.
NoResult == [calls |-> 0, raised |-> FALSE, partial |-> FALSE, value |-> << >>,
             target_date |-> 0, preds |-> << >>, replaced |-> 0]

\* Rows a previous run of the process left in the database file.
SeedPredictions(day) ==
    <<FallbackPrediction(1, "morning", << >>, day - PredictionDays - 1),
      FallbackPrediction(1, "morning", << >>, day - PredictionDays)>>
SeedTransactions(day) ==
    {[id |-> 1, day |-> day - TransactionDays - 1],
     [id |-> 2, day |-> day - TransactionDays]}
SeedLog(day) ==
    <<[id |-> 1, status |-> "success", records_affected |-> 0,
       error_message |-> "", day |-> day - PredictionDays - 1]>>

\* ------------------------------------------------ the sync cycle
\* _sync_analytics that logs a failure of the read and returns 0.
SyncAnalyticsSwallows(a) ==
    [raised |-> FALSE, count |-> IF a = "data" THEN 1 ELSE 0]

\* _sync_analytics: 1 when yesterday's sales summary exists, else 0; a
\* failure of the read is logged and raised again.
SyncAnalytics(a) ==
    [raised |-> (a = "raise"), count |-> IF a = "data" THEN 1 ELSE 0]

\* generate_predictions for one target date as the sync cycle meets it: no
\* historical data returns a count of 0 and writes nothing; a failure of
\* the read or of the save raises (the save rolls back); otherwise the
\* batch, here fo.n fallback forecasts, is saved.
GeneratePredictions(table, target_date, fo) ==
    LET rows == [i \in 1..fo.n |->
                    FallbackPrediction(i, "morning", << >>, target_date)]
        saved == SavePredictions(table, rows,
                     IF fo.kind = "savefail" THEN Len(rows) ELSE 0)
    IN  CASE fo.kind = "raise" ->
                [raised |-> TRUE, predictions_generated |-> 0, table |-> table]
          [] fo.kind = "nodata" ->
                [raised |-> FALSE, predictions_generated |-> 0, table |-> table]
          [] OTHER ->
                [raised |-> saved.raised,
                 predictions_generated |-> IF saved.raised THEN 0 ELSE Len(rows),
                 table |-> saved.table]

\* _sync_predictions whose handler leaves the loop (break for continue).
PredictionsStepAbort(acc, days_ahead, f, day) ==
    LET r == GeneratePredictions(acc.table, day + days_ahead, f[days_ahead])
    IN  [table |-> r.table,
         count |-> acc.count + (IF r.raised THEN 0 ELSE r.predictions_generated),
         calls |-> Append(acc.calls, days_ahead),
         next |-> IF r.raised THEN LastDayAhead + 1 ELSE days_ahead + 1]

\* One iteration of the loop of _sync_predictions: the result of the call
\* is added to the count, an exception is logged and the loop continues.
PredictionsStep(acc, days_ahead, f, day) ==
    LET r == GeneratePredictions(acc.table, day + days_ahead, f[days_ahead])
    IN  [table |-> r.table,
         count |-> acc.count + (IF r.raised THEN 0 ELSE r.predictions_generated),
         calls |-> Append(acc.calls, days_ahead),
         next |-> days_ahead + 1]

\* _sync_predictions: for days_ahead in range(1, 4).
RECURSIVE SyncPredictionsFrom(_, _, _)
SyncPredictionsFrom(acc, f, day) ==
    IF acc.next > LastDayAhead THEN acc
    ELSE SyncPredictionsFrom(PredictionsStep(acc, acc.next, f, day), f, day)

SyncPredictions(table, f, day) ==
    SyncPredictionsFrom(
        [table |-> table, count |-> 0, calls |-> << >>, next |-> FirstDayAhead],
        f, day)

\* _cleanup_old_data that logs an exception and returns 0.
CleanupSwallows(db, c, day) == [raised |-> FALSE, count |-> 0, db |-> db]

\* A retention step whose DELETEs match no row.
ExpiredNever(date, cutoff) == FALSE

\* The WHERE clauses of the retention step: `prediction_date < ?` and
\* `DATE(timestamp) < ?`, on calendar dates.
Expired(date, cutoff) == date < cutoff

\* The statements of the retention step, in order.
CleanupSteps == <<"predictions", "inventory_transactions", "sync_log", "commit">>

\* The transaction of _cleanup_old_data: three DELETEs on one connection,
\* cursor.rowcount summed, and one commit.  fail_at = 0: all four succeed;
\* fail_at = k: the k-th statement of CleanupSteps raises after the ones
\* before it were executed, and the connection is closed without a commit.
RetentionTransaction(db, day, fail_at) ==
    LET cutoff_date == day - PredictionDays
        old_transaction_date == day - TransactionDays
        done(k) == fail_at = 0 \/ k < fail_at
        keep_p(r) == ~Expired(r.prediction_date, cutoff_date)
        keep_l(r) == ~Expired(r.day, cutoff_date)
        p == IF done(1) THEN SelectSeq(db.predictions, keep_p)
             ELSE db.predictions
        t == IF done(2)
             THEN {r \in db.inventory_transactions :
                      ~Expired(r.day, old_transaction_date)}
             ELSE db.inventory_transactions
        l == IF done(3) THEN SelectSeq(db.sync_log, keep_l) ELSE db.sync_log
        work == [db EXCEPT !.predictions = p, !.inventory_transactions = t,
                           !.sync_log = l]
    IN  IF fail_at = 0
        THEN [raised |-> FALSE,
              count |-> (Len(db.predictions) - Len(p))
                        + (Cardinality(db.inventory_transactions)
                             - Cardinality(t))
                        + (Len(db.sync_log) - Len(l)),
              db |-> work]
        ELSE [raised |-> TRUE, count |-> 0, db |-> Rollback(db, work)]

\* _cleanup_old_data in a sync cycle: c = "raise" is a failure of the last
\* statement, with every DELETE executed; the exception is raised again.
CleanupOldData(db, c, day) ==
    RetentionTransaction(db, day, IF c = "raise" THEN Len(CleanupSteps) ELSE 0)

\* A _log_sync_operation that inserts nothing.
LogSyncOperationSilent(db, l, status, records_affected, error_message, day) ==
    db

\* _log_sync_operation: one INSERT into sync_log; any exception is logged
\* and swallowed.
LogSyncOperation(db, l, status, records_affected, error_message, day) ==
    IF l = "raise" THEN db
    ELSE [db EXCEPT
            !.sync_log = Append(db.sync_log,
                [id |-> db.log_seq + 1, status |-> status,
                 records_affected |-> records_affected,
                 error_message |-> error_message, day |-> day]),
            !.log_seq = db.log_seq + 1]

\* An entry that names the failure of the sync-log insert instead.
LoggingFailureEntry(at, e) == [at |-> at, wrapped |-> TRUE, e |-> "log"]

\* The string manual_sync appends to self.errors for exception e.
SyncFailedEntry(at, e) == [at |-> at, wrapped |-> TRUE, e |-> e]
\* The string _sync_loop appends to self.errors for exception e.
LoopErrorEntry(at, e) == [at |-> at, wrapped |-> FALSE, e |-> e]

\* An except branch that stamps last_sync as the success path does.
SyncFailureStamped(s, db, in, by, steps, calls, counts, e) ==
    [db |-> LogSyncOperation(db, in.l, "error", 0, e, s.today),
     last_sync |-> s.now,
     errors |-> Append(s.errors, SyncFailedEntry(s.now, e)),
     cycle |-> [by |-> by, in |-> in, steps |-> steps, calls |-> calls,
                analytics |-> counts[1], predictions |-> counts[2],
                cleanup |-> 0,
                status |-> "error", raised |-> e, at |-> s.now]]

\* The except branch of manual_sync.
SyncFailure(s, db, in, by, steps, calls, counts, e) ==
    [db |-> LogSyncOperation(db, in.l, "error", 0, e, s.today),
     last_sync |-> s.last_sync,
     errors |-> Append(s.errors, SyncFailedEntry(s.now, e)),
     cycle |-> [by |-> by, in |-> in, steps |-> steps, calls |-> calls,
                analytics |-> counts[1], predictions |-> counts[2],
                cleanup |-> 0,
                status |-> "error", raised |-> e, at |-> s.now]]

\* records_affected that leaves the retention count out.
RecordsAffectedNoCleanup(analytics_count, predictions_count, cleanup_count) ==
    analytics_count + predictions_count

\* records_affected of a successful cycle.
RecordsAffected(analytics_count, predictions_count, cleanup_count) ==
    analytics_count + predictions_count + cleanup_count

\* manual_sync on service state s with the cycle's inputs; by names the
\* caller (0: an on-demand call, t: loop task t).
ManualSync(s, in, by) ==
    LET an == SyncAnalytics(in.a)
        sp == SyncPredictions(s.db.predictions, in.f, s.today)
        db1 == [s.db EXCEPT !.predictions = sp.table]
        cl == CleanupOldData(db1, in.c, s.today)
    IN  IF an.raised
        THEN SyncFailure(s, s.db, in, by, <<"analytics">>, << >>, <<0, 0>>,
                         "analytics")
        ELSE IF cl.raised
        THEN SyncFailure(s, db1, in, by,
                 <<"analytics", "forecast", "retention">>, sp.calls,
                 <<an.count, sp.count>>, "cleanup")
        ELSE [db |-> LogSyncOperation(cl.db, in.l, "success",
                         RecordsAffected(an.count, sp.count, cl.count),
                         "", s.today),
              last_sync |-> s.now,
              errors |-> s.errors,
              cycle |-> [by |-> by, in |-> in,
                         steps |-> <<"analytics", "forecast", "retention">>,
                         calls |-> sp.calls, analytics |-> an.count,
                         predictions |-> sp.count, cleanup |-> cl.count,
                         status |-> "success", raised |-> "", at |-> s.now]]

\* self.errors[:5], the oldest five.
RecentOfOldest(errs) ==
    IF Len(errs) > RecentErrors THEN SubSeq(errs, 1, RecentErrors) ELSE errs

\* self.errors[-5:]
RecentOf(errs) ==
    IF Len(errs) > RecentErrors
    THEN SubSeq(errs, Len(errs) - RecentErrors + 1, Len(errs))
    ELSE errs

\* get_status
GetStatus ==
    [is_running |-> is_running,
     last_sync |-> last_sync,
     sync_interval_minutes |-> sync_interval \div SecondsPerMinute,
     recent_errors |-> RecentOf(errors),
     total_errors |-> Len(errors)]

\* ------------------------------------------------------------ state
\* SyncService.__init__ on a database file that is new (seeded = FALSE) or
\* that an earlier run of the process has written (seeded = TRUE).
InitService(seeds) ==
    /\ is_running = FALSE
    /\ sync_task = 0
    /\ last_sync = 0
    /\ sync_interval = InitialInterval
    /\ errors = << >>
    /\ today = 0
    /\ now = 1
    /\ \E seeded \in seeds :
          /\ predictions = IF seeded THEN SeedPredictions(today) ELSE << >>
          /\ inventory_transactions =
                IF seeded THEN SeedTransactions(today) ELSE {}
          /\ sync_log = IF seeded THEN SeedLog(today) ELSE << >>
          /\ log_seq = IF seeded THEN 1 ELSE 0
    /\ tasks = [t \in TaskIds |-> NoTask]
    /\ stops = {}
    /\ cycle = NoCycle
    /\ errlog = << >>
    /\ last = [op |-> "init", task |-> 0, arg |-> 0]
    /\ frames = [c \in Callers |-> NoFrame]
    /\ writes = << >>

\* The service on a store without order history, the forecaster not called.
InitOn(seeds) ==
    /\ InitService(seeds)
    /\ history = EmptyHistory
    /\ prophet = [d \in Dishes |-> [b \in Buckets |-> [kind |-> "none", yhat |-> 0]]]
    /\ result = NoResult

Init == InitOn(BOOLEAN)
InitFresh == InitOn({FALSE})

\* The state manual_sync reads and writes.
Service ==
    [db |-> [predictions |-> predictions,
             inventory_transactions |-> inventory_transactions,
             sync_log |-> sync_log, log_seq |-> log_seq],
     last_sync |-> last_sync, errors |-> errors, now |-> now, today |-> today]

\* The assignments one manual_sync leaves behind, r its result.
Commit(r) ==
    /\ predictions' = r.db.predictions
    /\ inventory_transactions' = r.db.inventory_transactions
    /\ sync_log' = r.db.sync_log
    /\ log_seq' = r.db.log_seq
    /\ last_sync' = r.last_sync
    /\ cycle' = r.cycle
    /\ now' = now + 1

\* Sync cycles executed so far: each takes one timestamp.
Cycles == now - 1

\* asyncio.create_task: the next task object.
FreeTask == CHOOSE t \in TaskIds :
               tasks[t].pc = "absent" /\ \A u \in 1..(t - 1) : tasks[u].pc # "absent"

\* A cancel() that the task never sees.
CancelIgnored(ts, t) == ts

\* Task.cancel(): a request the task meets at its next step; nothing for a
\* task that has finished.
Cancel(ts, t) ==
    IF ts[t].pc \in Finished THEN ts ELSE [ts EXCEPT ![t].must_cancel = TRUE]

\* stop_auto_sync that cancels the task and returns without awaiting it.
StopNeverSuspends(t) == FALSE

\* `await self.sync_task` suspends the caller unless the task has finished.
StopSuspends(t) == tasks[t].pc \notin Finished

\* A stop_auto_sync call suspended at its await: the task it awaits, and
\* whether start_auto_sync has created a new task since the call.
StopWaits == [task : TaskIds, restarted : BOOLEAN]

\* start_auto_sync without its test of is_running.
AlreadyRunningNever == FALSE

\* A start_auto_sync that refuses once a task has been created.
AlreadyStarted == sync_task # 0

\* The test `if self.is_running` of start_auto_sync.
AlreadyRunning == is_running

\* ---------------------------------------------------------- actions
\* start_auto_sync
StartAutoSync ==
    /\ IF AlreadyRunning
       THEN /\ UNCHANGED <<is_running, sync_task, tasks, stops>>
            /\ last' = [op |-> "start", task |-> 0, arg |-> 0]
       ELSE /\ \E t \in TaskIds : tasks[t].pc = "absent"
            /\ is_running' = TRUE
            /\ sync_task' = FreeTask
            /\ tasks' = [tasks EXCEPT ![FreeTask].pc = "created"]
            /\ stops' = {[w EXCEPT !.restarted = TRUE] : w \in stops}
            /\ last' = [op |-> "start", task |-> FreeTask, arg |-> 1]
    /\ UNCHANGED <<last_sync, sync_interval, errors, tables, now, today,
                   cycle, errlog, awaits, forecaster>>

\* stop_auto_sync, up to its return or to its suspension at the await
StopAutoSync ==
    /\ is_running' = FALSE
    /\ IF sync_task = 0
       THEN /\ UNCHANGED <<tasks, stops>>
            /\ last' = [op |-> "stop_return", task |-> 0, arg |-> 0]
       ELSE /\ tasks' = Cancel(tasks, sync_task)
            /\ IF StopSuspends(sync_task)
               THEN /\ stops' = stops \cup
                            {[task |-> sync_task, restarted |-> FALSE]}
                    /\ last' = [op |-> "stop_call", task |-> sync_task,
                                arg |-> 0]
               ELSE /\ UNCHANGED stops
                    /\ last' = [op |-> "stop_return", task |-> sync_task,
                                arg |-> 0]
    /\ UNCHANGED <<sync_task, last_sync, sync_interval, errors, tables, now,
                   today, cycle, errlog, awaits, forecaster>>

\* stop_auto_sync resumes once the task it awaits has finished, swallows
\* the CancelledError of a cancelled task, and returns
StopReturn(w) ==
    /\ w \in stops
    /\ tasks[w.task].pc \in Finished
    /\ stops' = stops \ {w}
    /\ last' = [op |-> "stop_return", task |-> w.task,
                arg |-> IF w.restarted THEN 2 ELSE 1]
    /\ UNCHANGED <<service, tables, tasks, now, today, cycle, errlog, awaits,
                   forecaster>>

\* A loop that sleeps the normal interval after a failure, too.
SleepAfterFailureInterval == sync_interval

\* A loop that reads the interval once, when it is constructed.
SleepAfterSuccessInitial == InitialInterval

\* How long _sync_loop sleeps after a cycle that succeeded / that raised.
SleepAfterSuccess == sync_interval
SleepAfterFailure == BackoffSeconds

\* What _sync_loop appends to self.errors after manual_sync raised e.
LoopErrors(at, e) == <<LoopErrorEntry(at, e)>>

\* Where a CancelledError thrown into _sync_loop at suspension point pc
\* leaves the task: inside the try it is caught and the loop breaks; before
\* the first step and inside the except handler it propagates.
Unwind(pc) == IF pc = "sleep" THEN "done" ELSE "cancelled"

\* A loop whose generic handler also catches the CancelledError.
UnwindErrorsRecorded(errs, at) == Append(errs, LoopErrorEntry(at, "cancelled"))

\* What the handlers of CancelledError leave in self.errors.
UnwindErrors(errs, at) == errs

\* One step of the task running _sync_loop: from its start or from the end
\* of a sleep, through the loop test and one manual_sync, to the next sleep
LoopStepOn(t, Inputs, budget) ==
    /\ tasks[t].pc \in {"created", "sleep", "backoff"}
    /\ IF tasks[t].must_cancel
       THEN /\ tasks' = [tasks EXCEPT ![t].pc = Unwind(tasks[t].pc)]
            /\ errors' = UnwindErrors(errors, now)
            /\ last' = [op |-> "unwind", task |-> t, arg |-> 0]
            /\ UNCHANGED <<is_running, sync_task, last_sync, sync_interval,
                           tables, now, cycle, errlog>>
       ELSE IF ~is_running
       THEN /\ tasks' = [tasks EXCEPT ![t].pc = "done"]
            /\ last' = [op |-> "exit", task |-> t, arg |-> 0]
            /\ UNCHANGED <<service, tables, now, cycle, errlog>>
       ELSE /\ Cycles < budget
            /\ \E in \in Inputs :
                 LET r == ManualSync(Service, in, t)
                     failed == r.cycle.status = "error"
                     more == IF failed THEN LoopErrors(now, r.cycle.raised)
                             ELSE << >>
                 IN  /\ Commit(r)
                     /\ errors' = r.errors \o more
                     /\ errlog' = errlog
                            \o (IF failed
                                THEN <<SyncFailedEntry(now, r.cycle.raised),
                                       LoopErrorEntry(now, r.cycle.raised)>>
                                ELSE << >>)
                     /\ tasks' = [tasks EXCEPT
                            ![t].pc = IF failed THEN "backoff" ELSE "sleep",
                            ![t].delay = IF failed THEN SleepAfterFailure
                                         ELSE SleepAfterSuccess,
                            ![t].cycles = @ + 1]
                     /\ last' = [op |-> "loop", task |-> t,
                                 arg |-> IF failed THEN 0 ELSE 1]
            /\ UNCHANGED <<is_running, sync_task, sync_interval>>
    /\ UNCHANGED <<stops, today, awaits, forecaster>>

LoopStep(t) == LoopStepOn(t, LoopInputs, MaxCycles)

\* manual_sync called on demand (POST /api/sync)
ManualSyncOn(Inputs, budget) ==
    /\ Cycles < budget
    /\ \E in \in Inputs :
         LET r == ManualSync(Service, in, 0)
             failed == r.cycle.status = "error"
         IN  /\ Commit(r)
             /\ errors' = r.errors
             /\ errlog' = errlog
                    \o (IF failed THEN <<SyncFailedEntry(now, r.cycle.raised)>>
                        ELSE << >>)
             /\ last' = [op |-> "manual_sync", task |-> 0,
                         arg |-> IF failed THEN 0 ELSE 1]
    /\ UNCHANGED <<is_running, sync_task, sync_interval, tasks, stops, today,
                   awaits, forecaster>>

ManualSyncCall == ManualSyncOn(LoopInputs, MaxCycles)

\* The first sync cycle after construction, under every input: run by the
\* loop task, or on demand
FirstLoopCycle(t) == LoopStepOn(t, CycleInputs, 1)
FirstManualSync == ManualSyncOn(CycleInputs, 1)

\* The cycles of a run in which stop_auto_sync is never called
LoopRun(t) == LoopStepOn(t, LoopInputs, MaxRunCycles)
ManualRun == ManualSyncOn(LoopInputs, MaxRunCycles)

\* ------------------------------------- manual_sync, await by await
\* A manual_sync whose _log_sync_operation awaits the data store, so that
\* the event loop can run another coroutine before the INSERT.
SuspendsAtLog(pc) == pc = "log"

\* Whether the event loop can switch to another coroutine at the await a
\* call of manual_sync has reached (pc names what is awaited next):
\* _sync_analytics, _sync_predictions, _cleanup_old_data and
\* _log_sync_operation are coroutines of synchronous code and never yield.
Suspends(pc) == FALSE

\* The callers inside manual_sync that hold the event loop.
Holders == {c \in Callers : frames[c].pc # "idle" /\ ~frames[c].yielded}

\* The event loop runs caller c only when no other coroutine is between
\* two yields.
CanRun(c) == Holders \subseteq {c}

\* Caller c is about to call manual_sync: a request to POST /api/sync, or
\* a loop task that wakes up uncancelled and passes its loop test.
Ready(c) ==
    /\ frames[c].pc = "idle"
    /\ \/ c = 0
       \/ /\ c \in TaskIds
          /\ tasks[c].pc \in {"created", "sleep", "backoff"}
          /\ ~tasks[c].must_cancel
          /\ is_running

\* The call of caller c has reached the await of pc.
Reach(c, pc, cy) ==
    [frames EXCEPT ![c].pc = pc, ![c].yielded = Suspends(pc), ![c].cy = cy]

\* The except branch of manual_sync up to its await: the error string is
\* appended to self.errors.
ManualSyncExcept(c, cy, e) ==
    /\ errors' = Append(errors, SyncFailedEntry(now, e))
    /\ errlog' = Append(errlog, SyncFailedEntry(now, e))
    /\ writes' = Append(writes, [by |-> c, n |-> frames[c].n + 1,
                                 to |-> "errors", at |-> now])
    /\ now' = now + 1
    /\ frames' = Reach(c, "log",
                       [cy EXCEPT !.status = "error", !.raised = e, !.at = now])

\* manual_sync is called and runs _sync_analytics
ManualSyncAnalytics(c) ==
    /\ CanRun(c) /\ Ready(c)
    /\ Cycles < MaxRunCycles
    /\ \E in \in LoopInputs :
         LET an == SyncAnalytics(in.a)
             cy == [NoCycle EXCEPT !.by = c, !.in = in,
                                   !.steps = <<"analytics">>,
                                   !.analytics = an.count,
                                   !.status = "running"]
         IN  IF an.raised
             THEN ManualSyncExcept(c, cy, "analytics")
             ELSE /\ frames' = Reach(c, "forecast", cy)
                  /\ UNCHANGED <<errors, errlog, writes, now>>
    /\ UNCHANGED <<is_running, sync_task, last_sync, sync_interval, tables,
                   tasks, stops, today, cycle, last, forecaster>>

\* manual_sync runs _sync_predictions
ManualSyncPredictions(c) ==
    /\ CanRun(c) /\ frames[c].pc = "forecast"
    /\ LET cy == frames[c].cy
           sp == SyncPredictions(predictions, cy.in.f, today)
       IN  /\ predictions' = sp.table
           /\ frames' = Reach(c, "retention",
                              [cy EXCEPT !.steps = Append(@, "forecast"),
                                         !.calls = sp.calls,
                                         !.predictions = sp.count])
    /\ UNCHANGED <<service, inventory_transactions, sync_log, log_seq, tasks,
                   stops, now, today, cycle, errlog, last, writes, forecaster>>

\* manual_sync runs _cleanup_old_data and, when that returns, assigns
\* self.last_sync
ManualSyncCleanup(c) ==
    /\ CanRun(c) /\ frames[c].pc = "retention"
    /\ LET cy == [frames[c].cy EXCEPT !.steps = Append(@, "retention")]
           cl == CleanupOldData(Service.db, cy.in.c, today)
       IN  IF cl.raised
           THEN /\ ManualSyncExcept(c, cy, "cleanup")
                /\ UNCHANGED <<last_sync, tables>>
           ELSE /\ predictions' = cl.db.predictions
                /\ inventory_transactions' = cl.db.inventory_transactions
                /\ sync_log' = cl.db.sync_log
                /\ last_sync' = now
                /\ writes' = Append(writes,
                                 [by |-> c, n |-> frames[c].n + 1,
                                  to |-> "last_sync", at |-> now])
                /\ now' = now + 1
                /\ frames' = Reach(c, "log",
                                [cy EXCEPT !.cleanup = cl.count,
                                           !.status = "success", !.at = now])
                /\ UNCHANGED <<errors, errlog, log_seq>>
    /\ UNCHANGED <<is_running, sync_task, sync_interval, tasks, stops, today,
                   cycle, last, forecaster>>

\* manual_sync runs _log_sync_operation and returns or raises; a loop task
\* goes on to its sleep, after appending the failure to self.errors
ManualSyncLog(c) ==
    /\ CanRun(c) /\ frames[c].pc = "log"
    /\ LET cy == frames[c].cy
           failed == cy.status = "error"
           db == LogSyncOperation(Service.db, cy.in.l, cy.status,
                     IF failed THEN 0
                     ELSE RecordsAffected(cy.analytics, cy.predictions,
                                          cy.cleanup),
                     cy.raised, today)
           logged == IF cy.in.l = "ok"
                     THEN <<[by |-> c, n |-> frames[c].n + 1,
                             to |-> "sync_log", at |-> cy.at]>>
                     ELSE << >>
           looped == IF failed /\ c # 0
                     THEN <<[by |-> c, n |-> frames[c].n + 1,
                             to |-> "errors", at |-> cy.at]>>
                     ELSE << >>
           more == IF failed /\ c # 0 THEN LoopErrors(cy.at, cy.raised)
                   ELSE << >>
       IN  /\ sync_log' = db.sync_log
           /\ log_seq' = db.log_seq
           /\ writes' = writes \o logged \o looped
           /\ errors' = errors \o more
           /\ errlog' = errlog \o more
           /\ cycle' = cy
           /\ frames' = [frames EXCEPT ![c] = [NoFrame EXCEPT !.n = frames[c].n + 1]]
           /\ IF c = 0
              THEN /\ UNCHANGED tasks
                   /\ last' = [op |-> "manual_sync", task |-> 0,
                               arg |-> IF failed THEN 0 ELSE 1]
              ELSE /\ tasks' = [tasks EXCEPT
                          ![c].pc = IF failed THEN "backoff" ELSE "sleep",
                          ![c].delay = IF failed THEN SleepAfterFailure
                                       ELSE SleepAfterSuccess,
                          ![c].cycles = @ + 1]
                   /\ last' = [op |-> "loop", task |-> c,
                               arg |-> IF failed THEN 0 ELSE 1]
    /\ UNCHANGED <<is_running, sync_task, last_sync, sync_interval,
                   predictions, inventory_transactions, stops, now, today,
                   forecaster>>
InvalidMinutesNegative(minutes) == minutes < 0

\* The test `if minutes < 1` of set_sync_interval.
InvalidMinutes(minutes) == minutes < 1

\* A set_sync_interval that stores its argument as it is.
SetSyncIntervalUnscaled(minutes) ==
    /\ IF InvalidMinutes(minutes)
       THEN UNCHANGED sync_interval
       ELSE sync_interval' = minutes
    /\ last' = [op |-> "set_sync_interval", task |-> 0, arg |-> minutes]
    /\ UNCHANGED <<is_running, sync_task, last_sync, errors, tables, tasks,
                   stops, now, today, cycle, errlog, awaits, forecaster>>

\* set_sync_interval(minutes): raises ValueError on an invalid argument,
\* before any assignment
SetSyncInterval(minutes) ==
    /\ IF InvalidMinutes(minutes)
       THEN UNCHANGED sync_interval
       ELSE sync_interval' = minutes * SecondsPerMinute
    /\ last' = [op |-> "set_sync_interval", task |-> 0, arg |-> minutes]
    /\ UNCHANGED <<is_running, sync_task, last_sync, errors, tables, tasks,
                   stops, now, today, cycle, errlog, awaits, forecaster>>

\* get_status (GET /api/sync/status) reads and changes nothing
GetStatusCall ==
    /\ last' = [op |-> "get_status", task |-> 0, arg |-> 0]
    /\ UNCHANGED <<service, tables, tasks, stops, now, today, cycle, errlog,
                   awaits, forecaster>>

Next ==
    \/ StartAutoSync
    \/ StopAutoSync
    \/ \E w \in stops : StopReturn(w)
    \/ \E t \in TaskIds : LoopStep(t)
    \/ ManualSyncCall
    \/ \E minutes \in MinutesArgs : SetSyncInterval(minutes)
    \/ GetStatusCall

Spec == InitFresh /\ [][Next]_vars

NextCycle ==
    \/ StartAutoSync
    \/ \E t \in TaskIds : FirstLoopCycle(t)
    \/ FirstManualSync

CycleSpec == Init /\ [][NextCycle]_vars

\* Every operation of the service, a cycle failing in the analytics step
\* or in the retention step, or succeeding.
LoopFrame(t) == LoopStepOn(t, FrameInputs, MaxCycles)
ManualFrame == ManualSyncOn(FrameInputs, MaxCycles)

NextFrame ==
    \/ StartAutoSync
    \/ StopAutoSync
    \/ \E w \in stops : StopReturn(w)
    \/ \E t \in TaskIds : LoopFrame(t)
    \/ ManualFrame
    \/ \E minutes \in MinutesArgs : SetSyncInterval(minutes)
    \/ GetStatusCall

FrameSpec == InitFresh /\ [][NextFrame]_vars

NextRun ==
    \/ StartAutoSync
    \/ \E t \in TaskIds : LoopRun(t)
    \/ ManualRun
    \/ GetStatusCall

RunSpec == InitFresh /\ [][NextRun]_vars

\* The fits of the model on history h: every series that takes the model
\* path has the fit `fit`.
FitsOf(h, fit) ==
    [d \in Dishes |->
        [b \in Buckets |->
            IF Len(h.series[d][b]) >= MinObservations THEN fit
            ELSE [kind |-> "none", yhat |-> 0]]]

\* The forecaster on a store an earlier run has written, with one of the
\* order histories of the pool.
InitForecasterOn(pool) ==
    /\ InitService({TRUE})
    /\ history \in pool
    /\ prophet \in {FitsOf(history, fit) : fit \in Fits}
    /\ result = NoResult

InitForecaster == InitForecasterOn(SampleHistories)
InitPredict == InitForecasterOn(Histories)

\* generate_predictions(target_date), called by POST
\* /api/predictions/generate or by _sync_predictions; may_fail: a statement
\* of save_predictions may raise.
GeneratePredictionsOn(days_ahead, budget, may_fail) ==
    /\ result.calls < budget
    /\ \E w \in HalfWidths :
         LET target_date == today + days_ahead
             preds == PredictionsOf(history, prophet, UniqueDishes(history), 1,
                                    target_date, w, today)
         IN  \E fail_at \in IF may_fail THEN 0..(Len(preds) + 1) ELSE {0} :
                LET r == GeneratePredictionsFrom(history, prophet, predictions,
                             target_date, w, fail_at, today)
                IN  /\ predictions' = r.table
                    /\ result' = [calls |-> result.calls + 1,
                                  raised |-> r.raised,
                                  partial |-> r.raised /\ fail_at > 1,
                                  value |-> r.value,
                                  target_date |-> target_date,
                                  preds |-> IF NoHistoricalData(history)
                                            THEN << >> ELSE preds,
                                  replaced |->
                                      IF r.raised \/ NoHistoricalData(history)
                                      THEN 0
                                      ELSE Len(predictions) + Len(preds)
                                               - Len(r.table)]
    /\ last' = [op |-> "generate_predictions", task |-> 0, arg |-> days_ahead]
    /\ UNCHANGED <<service, inventory_transactions, sync_log, log_seq, tasks,
                   stops, now, today, cycle, errlog, awaits, history, prophet>>

GeneratePredictionsCall(days_ahead) ==
    GeneratePredictionsOn(days_ahead, MaxCalls, TRUE)

\* The first call of generate_predictions, on every history, the database
\* taking every row
PredictOnce(days_ahead) == GeneratePredictionsOn(days_ahead, 1, FALSE)

\* The retention step of a sync cycle, its statement fail_at raising; arg
\* is 0 when it committed, 1 when its first DELETE raised, 2 when a later
\* statement raised.
CleanupOldDataCall(fail_at) ==
    /\ LET cl == RetentionTransaction(Service.db, today, fail_at)
       IN  /\ predictions' = cl.db.predictions
           /\ inventory_transactions' = cl.db.inventory_transactions
           /\ sync_log' = cl.db.sync_log
    /\ last' = [op |-> "cleanup_old_data", task |-> 0,
                arg |-> IF fail_at > 1 THEN 2 ELSE fail_at]
    /\ UNCHANGED <<service, log_seq, tasks, stops, now, today, cycle, errlog,
                   awaits, forecaster>>

NextForecast ==
    \/ \E days_ahead \in TargetDays : GeneratePredictionsCall(days_ahead)
    \/ \E fail_at \in 0..Len(CleanupSteps) : CleanupOldDataCall(fail_at)

ForecastSpec == InitForecaster /\ [][NextForecast]_vars

NextPredict == \E days_ahead \in TargetDays : PredictOnce(days_ahead)

PredictSpec == InitPredict /\ [][NextPredict]_vars

NextAwait ==
    \/ StartAutoSync
    \/ \E c \in Callers : ManualSyncAnalytics(c)
    \/ \E c \in Callers : ManualSyncPredictions(c)
    \/ \E c \in Callers : ManualSyncCleanup(c)
    \/ \E c \in Callers : ManualSyncLog(c)

AwaitSpec == InitFresh /\ [][NextAwait]_vars

\* The event loop runs every task that is ready: a task whose sleep is over
\* or that was cancelled takes its step, a stop call whose task finished
\* resumes.
FairSpec ==
    /\ Spec
    /\ \A t \in TaskIds : WF_vars(LoopStep(t))
    /\ \A w \in StopWaits : WF_vars(StopReturn(w))

\* ------------------------------------------------------------ claims
Created == {t \in TaskIds : tasks[t].pc # "absent"}
Alive == {t \in TaskIds : tasks[t].pc \in {"created", "sleep", "backoff"}}
NeverStopped == \A t \in TaskIds : ~tasks[t].must_cancel

\* C1: start_auto_sync on a service that is already running changes
\* nothing: is_running stays true, sync_task and the tasks are kept and no
\* task is created; as long as only start is called (no task was ever
\* cancelled) at most one loop task exists.
C1_StartWhileRunning ==
    /\ [](NeverStopped => Cardinality(Created) <= 1)
    /\ [][(is_running /\ last'.op = "start")
            => (is_running' /\ sync_task' = sync_task /\ tasks' = tasks)]_vars

C1_Witness ==
    /\ last.op = "start" /\ last.task = 0
    /\ is_running /\ NeverStopped /\ Cardinality(Created) = 1

\* C2 as stated: when a stop_auto_sync that was called while the loop slept
\* (the task had run a cycle and had not finished) returns, the task has
\* terminated and is_running is false.
C2_Original ==
    (last.op = "stop_return" /\ last.arg >= 1 /\ tasks[last.task].cycles >= 1)
        => (tasks[last.task].pc \in Finished /\ ~is_running)

\* C2, amended: when stop_auto_sync returns, the task it cancelled has
\* terminated, and is_running is false unless start_auto_sync was called
\* while the stop was waiting for the task; is_running turns true only by
\* start_auto_sync, and a task that stop has cancelled begins no further
\* sync cycle.
C2_StopReturns ==
    /\ []((last.op = "stop_return" /\ last.task # 0)
            => /\ tasks[last.task].pc \in Finished
               /\ (last.arg # 2 => ~is_running))
    /\ [][(~is_running /\ is_running') => last'.op = "start"]_vars
    /\ [][\A t \in TaskIds :
            tasks[t].must_cancel => tasks'[t].cycles = tasks[t].cycles]_vars

\* stop_auto_sync was called while the loop slept after a cycle, waited,
\* and has returned.
C2_Witness ==
    /\ last.op = "stop_return" /\ last.arg = 1
    /\ tasks[last.task].pc = "done" /\ tasks[last.task].cycles >= 1
    /\ ~is_running

\* C3: a failed cycle does not end the loop: the task sleeps the fixed 60
\* seconds (whatever sync_interval is) and, unless stop cancels it, runs
\* another cycle (within the cycles the model's run has room for).
C3_RetryAfterFailure ==
    /\ [](\A t \in TaskIds :
            tasks[t].pc = "backoff" => tasks[t].delay = BackoffSeconds)
    /\ []((last.op = "loop" /\ last.arg = 0)
            => tasks[last.task].pc = "backoff")
    /\ \A t \in TaskIds : \A k \in 0..MaxCycles :
          (tasks[t].pc = "backoff" /\ ~tasks[t].must_cancel
             /\ tasks[t].cycles = k)
          ~> (tasks[t].cycles > k \/ tasks[t].must_cancel
                \/ Cycles >= MaxCycles)

\* A loop task whose first cycle failed has run a second cycle, with
\* sync_interval different from the back-off.
C3_Witness ==
    \E t \in TaskIds :
        /\ tasks[t].cycles = 2 /\ last.op = "loop" /\ last.task = t
        /\ Len(errors) >= 2 /\ errors[1].at = 1 /\ ~errors[2].wrapped
        /\ sync_interval # BackoffSeconds

\* C4 as stated: a loop cancelled during its sleep or its back-off unwinds without an entry in the error
\* history or the sync log, and with is_running false.
C4_Original ==
    [][(last'.op = "unwind" /\ tasks[last'.task].pc \in {"sleep", "backoff"})
         => (errors' = errors /\ sync_log' = sync_log /\ ~is_running')]_vars

\* C4, amended: a loop cancelled before its first step, during its sleep
\* or during the back-off unwinds without an entry in the error history or
\* the sync log, and is_running is false unless start_auto_sync was called
\* after the stop that cancelled it.
C4_CleanUnwind ==
    [][last'.op = "unwind"
         => /\ errors' = errors /\ sync_log' = sync_log
            /\ tasks'[last'.task].pc \in Finished
            /\ (is_running'
                  => \E w \in stops : w.task = last'.task /\ w.restarted)]_vars

\* A loop cancelled during its back-off has unwound.
C4_Witness ==
    /\ last.op = "unwind" /\ tasks[last.task].pc = "cancelled"
    /\ tasks[last.task].cycles >= 1 /\ ~is_running /\ Len(errors) = 2

\* What one generate_predictions call contributes when it does not raise.
Generated(fo) == IF fo.kind = "ok" THEN fo.n ELSE 0

RECURSIVE SumGenerated(_, _)
SumGenerated(f, D) ==
    IF D = {} THEN 0
    ELSE LET d == CHOOSE x \in D : TRUE
         IN  Generated(f[d]) + SumGenerated(f, D \ {d})

AllDaysAhead == [i \in 1..(LastDayAhead - FirstDayAhead + 1) |-> FirstDayAhead + i - 1]
RowsFor(day) ==
    {predictions[i] : i \in {j \in DOMAIN predictions :
                                predictions[j].prediction_date = day}}
ErrorRows == {i \in DOMAIN sync_log : sync_log[i].status = "error"}
CycleRan == cycle.status # "none"

C6_Original ==
    (CycleRan /\ cycle.in.a = "raise")
        => /\ cycle.steps = <<"analytics">> /\ cycle.calls = << >>
           /\ \A d \in DaysAhead : RowsFor(today + d) = {}
           /\ cycle.status = "error" /\ cycle.raised = "analytics"
           /\ ErrorRows # {}

\* C6, amended: when the analytics step raises, neither the forecast nor
\* the retention step runs, manual_sync appends the failure to the error
\* history and raises it, and the cycle is recorded in the sync log with
\* status error unless the insert into sync_log fails too.
C6_AnalyticsFailure ==
    (CycleRan /\ cycle.in.a = "raise")
        => /\ cycle.steps = <<"analytics">> /\ cycle.calls = << >>
           /\ \A d \in DaysAhead : RowsFor(today + d) = {}
           /\ cycle.status = "error" /\ cycle.raised = "analytics"
           /\ Len(errors) >= 1
           /\ errors[1] = SyncFailedEntry(cycle.at, "analytics")
           /\ (cycle.in.l = "ok" <=> ErrorRows # {})

C6_Witness ==
    /\ CycleRan /\ cycle.in.a = "raise" /\ cycle.by = 0
    /\ ErrorRows # {} /\ Len(errors) = 1

\* C7 as stated: a write failure in save_predictions or in a retention
\* delete aborts the cycle, is recorded (the sync log being writable) as an
\* error entry of the sync log, and the loop keeps running.
C7_Original ==
    (CycleRan /\ cycle.in.a # "raise" /\ cycle.in.l = "ok"
       /\ (cycle.in.c = "raise"
             \/ \E d \in DaysAhead : cycle.in.f[d].kind = "savefail"))
        => /\ cycle.status = "error"
           /\ ErrorRows # {}
           /\ (cycle.by > 0 => tasks[cycle.by].pc = "backoff")

\* C7, amended: a write failure in a retention delete aborts the cycle, is
\* appended to the error history and (unless the insert into sync_log fails
\* too) recorded as an error entry of the sync log, and the loop task stays
\* alive in its back-off; a write failure in save_predictions is caught in
\* the forecast step: that offset contributes no row and the cycle goes on,
\* succeeding when the retention step does.
C7_WriteFailures ==
    (CycleRan /\ cycle.in.a # "raise")
        => /\ cycle.in.c = "raise"
                => /\ cycle.status = "error" /\ cycle.raised = "cleanup"
                   /\ Len(errors) >= 1
                   /\ errors[1] = SyncFailedEntry(cycle.at, "cleanup")
                   /\ (cycle.in.l = "ok" <=> ErrorRows # {})
                   /\ (cycle.by > 0
                         => tasks[cycle.by].pc = "backoff" /\ is_running)
           /\ cycle.in.c = "ok"
                => /\ cycle.status = "success" /\ ErrorRows = {}
                   /\ \A d \in DaysAhead :
                        cycle.in.f[d].kind = "savefail" => RowsFor(today + d) = {}

\* A retention delete failed in a cycle of the loop.
C7_Witness ==
    /\ CycleRan /\ cycle.in.a # "raise" /\ cycle.in.c = "raise"
    /\ cycle.by > 0 /\ ErrorRows # {}
    /\ \E d \in DaysAhead : cycle.in.f[d].kind = "savefail"

\* The rows the step inserts into sync_log.
NewLogRows == {i \in DOMAIN sync_log' : sync_log'[i].id > log_seq}
Succeeds == cycle' # cycle /\ cycle'.in.a # "raise" /\ cycle'.in.c # "raise"

\* C8 as stated: a manual_sync whose analytics and retention steps succeed
\* appends exactly one sync-log entry, with status success and
\* records_affected = analytics + predictions + cleanup counts, and sets
\* last_sync to the time of the cycle.
C8_Original ==
    [][Succeeds
         => /\ Cardinality(NewLogRows) = 1
            /\ \A i \in NewLogRows :
                 /\ sync_log'[i].status = "success"
                 /\ sync_log'[i].records_affected =
                      cycle'.analytics + cycle'.predictions + cycle'.cleanup
            /\ last_sync' = now]_vars

\* C8, amended: such a manual_sync returns success and sets last_sync to
\* the time of the cycle; it appends exactly one sync-log entry, with
\* status success and records_affected = analytics + predictions + cleanup
\* counts, unless the insert into sync_log fails, and then it appends none.
C8_SuccessRecorded ==
    [][Succeeds
         => /\ cycle'.status = "success" /\ errors' = errors
            /\ last_sync' = now /\ cycle'.at = now
            /\ Cardinality(NewLogRows) = (IF cycle'.in.l = "ok" THEN 1 ELSE 0)
            /\ \A i \in NewLogRows :
                 /\ sync_log'[i].status = "success"
                 /\ sync_log'[i].records_affected =
                      cycle'.analytics + cycle'.predictions + cycle'.cleanup]_vars

\* A successful cycle that counted a sales summary, forecasts and deleted
\* rows, and whose entry is in the sync log.
C8_Witness ==
    /\ CycleRan /\ cycle.status = "success" /\ cycle.in.l = "ok"
    /\ cycle.analytics = 1 /\ cycle.predictions >= 2 /\ cycle.cleanup >= 1
    /\ Len(sync_log) = 1
    /\ sync_log[1].records_affected =
         1 + cycle.predictions + cycle.cleanup
    /\ last_sync = cycle.at

\* C9 as stated: a failed cycle, run on demand or by the loop, adds exactly
\* one entry to the error history and (the sync log being writable) exactly
\* one error entry to the sync log.
C9_Original ==
    [][(cycle' # cycle /\ cycle'.status = "error" /\ cycle'.in.l = "ok")
         => /\ Len(errors') = Len(errors) + 1
            /\ Cardinality(NewLogRows) = 1
            /\ \A i \in NewLogRows : sync_log'[i].status = "error"]_vars

LastOf(seq, n) ==
    LET m == IF Len(seq) < n THEN Len(seq) ELSE n
    IN  [i \in 1..m |-> seq[Len(seq) - m + i]]

\* C10: get_status reports at most 5 recent errors, the most recently
\* appended error strings in the order they were appended, and a total
\* equal to the number of error strings appended since construction; the
\* total never decreases.
C10_RecentErrors ==
    /\ [](/\ Len(GetStatus.recent_errors) <= RecentErrors
          /\ GetStatus.recent_errors = LastOf(errlog, RecentErrors)
          /\ GetStatus.total_errors = Len(errlog))
    /\ [][Len(errors') >= Len(errors)]_vars

\* get_status was called with more than 5 errors in the history.
C10_Witness == last.op = "get_status" /\ Len(errors) > RecentErrors

\* C11: set_sync_interval(minutes) with minutes < 1 raises and changes
\* nothing: sync_interval and every field get_status reports stay as they
\* were; with minutes >= 1 it sets sync_interval to minutes * 60 seconds
\* (get_status then reports minutes) and changes no other field.
C11_SetSyncInterval ==
    [][last'.op = "set_sync_interval"
         => /\ <<is_running, sync_task, last_sync, errors>>'
                  = <<is_running, sync_task, last_sync, errors>>
            /\ IF last'.arg < 1
               THEN sync_interval' = sync_interval /\ GetStatus' = GetStatus
               ELSE /\ sync_interval' = last'.arg * SecondsPerMinute
                    /\ GetStatus'.sync_interval_minutes = last'.arg]_vars

\* A call with minutes < 1 was rejected after an earlier call had changed
\* the interval, and the changed interval is in force.
C11_Witness ==
    /\ last.op = "set_sync_interval" /\ last.arg < 1
    /\ sync_interval # InitialInterval
    /\ GetStatus.sync_interval_minutes * SecondsPerMinute = sync_interval

\* C12: after a successful cycle the loop task sleeps for the value
\* sync_interval has when the sleep begins; set_sync_interval leaves every
\* pending sleep as it is, so the new value is first used by the sleep
\* after the next successful cycle.
C12_IntervalAtSleep ==
    /\ [][(last'.op = "loop" /\ last'.arg = 1)
            => /\ tasks'[last'.task].pc = "sleep"
               /\ tasks'[last'.task].delay = sync_interval
               /\ sync_interval' = sync_interval]_vars
    /\ [][last'.op = "set_sync_interval" => tasks' = tasks]_vars

\* The interval was changed while a sleep of the old duration was pending.
C12_Witness ==
    /\ last.op = "set_sync_interval" /\ last.arg >= 1
    /\ \E t \in TaskIds :
          /\ tasks[t].pc = "sleep" /\ ~tasks[t].must_cancel
          /\ tasks[t].delay = InitialInterval
          /\ sync_interval # tasks[t].delay

\* The rows of a table (a sequence, in rowid order) as a set.
Range(seq) == {seq[i] : i \in DOMAIN seq}

\* The rows the step removes from the three tables under retention; the
\* forecast step replaces rows of later dates only.
RemovedRows ==
    Cardinality({i \in DOMAIN predictions :
                    /\ predictions[i].prediction_date <= today
                    /\ predictions[i] \notin Range(predictions')})
    + Cardinality(inventory_transactions \ inventory_transactions')
    + Cardinality({i \in DOMAIN sync_log : sync_log[i] \notin Range(sync_log')})

\* C13: after a manual_sync that returned successfully the store holds no
\* forecast row dated more than 30 days before today, no inventory
\* transaction dated more than 90 days before today and no sync-log row
\* dated more than 30 days before today (ages in calendar days, as the
\* DELETEs compare dates), and the cycle's cleanup count is the number of
\* rows the three deletions removed.
C13_Retention ==
    /\ [](cycle.status = "success"
            => /\ \A r \in Range(predictions) :
                     today - r.prediction_date <= PredictionDays
               /\ \A r \in inventory_transactions :
                     today - r.day <= TransactionDays
               /\ \A r \in Range(sync_log) :
                     today - r.day <= PredictionDays)
    /\ [][Succeeds => cycle'.cleanup = RemovedRows]_vars

\* A successful cycle on a database that held rows past and on the cutoff
\* dates: one row of each table was removed, the rows on the cutoff stay.
C13_Witness ==
    /\ cycle.status = "success" /\ cycle.cleanup = 3
    /\ \E r \in Range(predictions) : today - r.prediction_date = PredictionDays
    /\ \E r \in inventory_transactions : today - r.day = TransactionDays

InProgress == {c \in Callers : frames[c].pc # "idle"}
WritesTo(to) == {i \in DOMAIN writes : writes[i].to = to}
SameCycle(i, j) == writes[i].by = writes[j].by /\ writes[i].n = writes[j].n

\* C14: with manual_sync called on demand while a loop task runs cycles,
\* at most one call of manual_sync is in progress at any time, the writes
\* of one cycle to last_sync, to the error history and to the sync log are
\* never separated by a write of another cycle, and no write is lost: the
\* error history holds every error string appended, the sync log one row
\* per insert, and last_sync the time of the latest successful cycle.
C14_Serialized ==
    /\ Cardinality(InProgress) <= 1
    /\ \A i, k \in DOMAIN writes : \A j \in i..k :
          SameCycle(i, k) => SameCycle(i, j)
    /\ errors = errlog
    /\ Len(errors) = Cardinality(WritesTo("errors"))
    /\ Len(sync_log) = Cardinality(WritesTo("sync_log"))
    /\ \A i \in DOMAIN sync_log : sync_log[i].id = i
    /\ \A i \in WritesTo("last_sync") :
          (\A j \in WritesTo("last_sync") : j <= i) => last_sync = writes[i].at

\* A cycle of a loop task is in progress, between its write to SyncStatus
\* and its write to the sync log, after a cycle called on demand and a
\* cycle of the loop have completed.
C14_Witness ==
    \E t \in TaskIds :
        /\ frames[t].pc = "log" /\ frames[t].n >= 1 /\ frames[0].n >= 1
        /\ \E i, j \in DOMAIN writes : writes[i].by = 0 /\ writes[j].by = t

\* --------------------------------------------------------------- C15
\* The stored forecasts the retention step would delete.
Expiring == {r \in Range(predictions) :
                Expired(r.prediction_date, today - PredictionDays)}

\* C15: persistence is all-or-nothing per batch.  A call of
\* generate_predictions whose save_predictions raises, at whichever
\* statement, leaves the predictions table as it was before the call; a
\* retention step one of whose statements raises leaves predictions,
\* inventory_transactions and sync_log as they were, none of its deletions
\* committed.
C15_AllOrNothing ==
    [][/\ (last'.op = "generate_predictions" /\ result'.raised)
           => predictions' = predictions
       /\ (last'.op = "cleanup_old_data" /\ last'.arg # 0)
           => UNCHANGED <<predictions, inventory_transactions, sync_log>>]_vars

\* A save that raised after at least one row of the batch was executed,
\* followed by a retention step that raised after its first DELETE had
\* matched a row.
C15_Witness ==
    /\ result.raised
    /\ result.partial
    /\ last.op = "cleanup_old_data"
    /\ last.arg > 1
    /\ Expiring # {}

\* --------------------------------------------------------------- C16
\* C16: whatever calls of generate_predictions (each with its
\* save_predictions) and retention steps came before, the predictions
\* table holds at most one row per key (dish_id, prediction_date, period),
\* and after a call that returned, every forecast of its batch is the row
\* stored under its key: the row that held the key before is gone.
C16_OneRowPerKey ==
    /\ \A i, j \in DOMAIN predictions :
           Key(predictions[i]) = Key(predictions[j]) => i = j
    /\ (last.op = "generate_predictions" /\ ~result.raised)
           => Range(result.preds) \subseteq Range(predictions)

\* A call that returned after its save had replaced stored rows.
C16_Witness ==
    /\ last.op = "generate_predictions"
    /\ ~result.raised
    /\ result.replaced > 0

\* --------------------------------------------------------------- C17
\* The rows of a predictions table for one date, without their rowid.
ForecastsOn(table, date) == {r \in Range(table) : r.prediction_date = date}

\* C17 as the specification states it: a call of generate_predictions for
\* date d that returns, made right after a call for d that returned, on
\* the same order history, leaves for d the rows the first call left:
\* the same keys, predicted_demand, confidence, recommended_prep and
\* factors, and as many rows.
C17_Original ==
    [][(/\ last.op = "generate_predictions"
        /\ ~result.raised
        /\ last'.op = "generate_predictions"
        /\ ~result'.raised
        /\ result'.target_date = result.target_date)
          => ForecastsOn(predictions', result.target_date)
                 = ForecastsOn(predictions, result.target_date)]_vars

\* --------------------------------------------------------------- C18
\* C18 as the specification states it: on an empty order history a call of
\* generate_predictions returns, without raising, a dict that holds
\* predictions_generated = 0 and dishes_processed = 0, and the predictions
\* table is as it was before the call.
C18_Original ==
    [][(last'.op = "generate_predictions" /\ NoHistoricalData(history))
          => /\ ~result'.raised
             /\ "predictions_generated" \in DOMAIN result'.value
             /\ result'.value.predictions_generated = 0
             /\ "dishes_processed" \in DOMAIN result'.value
             /\ result'.value.dishes_processed = 0
             /\ predictions' = predictions]_vars

\* --------------------------------------------------------------- C19
\* The series a forecast of the last call was computed from.
SeriesOf(p) == history.series[p.dish_id][p.period]

\* C19: every forecast in the list of a call of generate_predictions has
\* predicted_demand >= 1, recommended_prep >= 2 and recommended_prep >=
\* predicted_demand; its confidence is 60.0 when its series has fewer than
\* 5 observations and lies in 50.0 .. 95.0 when the model was fitted
\* (confidence is in tenths of a percent).
C19_Bounds ==
    \A p \in Range(result.preds) :
        /\ p.predicted_demand >= 1
        /\ p.recommended_prep >= 2
        /\ p.recommended_prep >= p.predicted_demand
        /\ Len(SeriesOf(p)) < 5 => p.confidence = 600
        /\ Len(SeriesOf(p)) >= 5
              => p.confidence >= 500 /\ p.confidence <= 950

\* A call has returned a list that holds a forecast of the model path on
\* the floors of demand and preparation and the ceiling of confidence, next
\* to a forecast of the fallback.
C19_Witness ==
    /\ result.calls = 1
    /\ \E p \in Range(result.preds) :
           /\ Len(SeriesOf(p)) >= 5
           /\ p.predicted_demand = 1
           /\ p.recommended_prep = 2
           /\ p.confidence = 950
    /\ \E q \in Range(result.preds) :
           /\ Len(SeriesOf(q)) < 5
           /\ q.confidence = 600

\* --------------------------------------------------------------- C20
\* round(num / den) to the nearest integer, a tie going to the even one.
Round(num, den) ==
    LET q == num \div den
        r == num % den
    IN  IF 2 * r < den THEN q
        ELSE IF 2 * r > den THEN q + 1
        ELSE IF q % 2 = 0 THEN q ELSE q + 1

\* C20 as the specification states it: the forecast of a series of fewer
\* than 5 observations has predicted_demand = max(1, round(mean of the
\* series, or 5 for an empty one)) and recommended_prep = max(2,
\* round(predicted_demand * 1.2)); the series 3, 4, 3, 5 gives 4 and 5.
C20_Original ==
    \A p \in Range(result.preds) :
        Len(SeriesOf(p)) < 5 =>
            LET series == SeriesOf(p)
                mean == IF Len(series) > 0
                        THEN Round(Sum(series), Len(series))
                        ELSE 5
                demand == IF mean > 1 THEN mean ELSE 1
                prep == Round(12 * demand, 10)
            IN  /\ p.predicted_demand = demand
                /\ p.recommended_prep = IF prep > 2 THEN prep ELSE 2
                /\ series = <<3, 4, 3, 5>>
                      => p.predicted_demand = 4 /\ p.recommended_prep = 5

\* --------------------------------------------------------------- C21
\* The fit the model gave for the series of a forecast of the last call.
FitOf(p) == prophet[p.dish_id][p.period]

\* C21 as the specification states it: a forecast of the model path has
\* predicted_demand = max(1, round(yhat)) and recommended_prep = max(2,
\* round(predicted_demand * m)), m being 1.2 when its confidence is above
\* 80 and 1.3 otherwise, 80 itself included (yhat is in tenths, confidence
\* in tenths of a percent).
C21_Original ==
    \A p \in Range(result.preds) :
        (Len(SeriesOf(p)) >= 5 /\ FitOf(p).kind = "ok") =>
            LET point == Round(FitOf(p).yhat, 10)
                demand == IF point > 1 THEN point ELSE 1
                m == IF p.confidence > 800 THEN 12 ELSE 13
                prep == Round(demand * m, 10)
            IN  /\ p.predicted_demand = demand
                /\ p.recommended_prep = IF prep > 2 THEN prep ELSE 2

\* --------------------------------------------------------------- C22
\* The dishes that have a row in the order history, and the (dish, period)
\* pairs the loops of generate_predictions visit.
DishesInData ==
    {d \in Dishes : \E b \in Buckets : history.series[d][b] # << >>}
Visited == DishesInData \X Range(Periods)

\* The pairs whose model fit raises.
FailedFits ==
    {x \in Visited : /\ Len(history.series[x[1]][x[2]]) >= 5
                     /\ prophet[x[1]][x[2]].kind = "error"}

\* C22: when a call of generate_predictions on a non-empty history
\* returns, a pair whose model fit raised has no forecast and did not
\* abort the batch: every other visited pair has its forecast of this call
\* stored under its key, dishes_processed is the number of distinct dishes
\* of the history whatever failed, and predictions_generated is the number
\* of forecasts produced and stored.
C22_FitFailureSkipped ==
    (/\ last.op = "generate_predictions"
     /\ ~result.raised
     /\ ~NoHistoricalData(history))
      => /\ result.value.dishes_processed = Cardinality(DishesInData)
         /\ result.value.predictions_generated
               = Cardinality(Visited \ FailedFits)
         /\ result.value.predictions_generated = Len(result.preds)
         /\ \A x \in Visited \ FailedFits :
               \E r \in Range(predictions) :
                   /\ Key(r) = <<x[1], result.target_date, x[2]>>
                   /\ r \in Range(result.preds)
         /\ \A x \in FailedFits :
               \A r \in Range(predictions) :
                   Key(r) # <<x[1], result.target_date, x[2]>>

\* A call has returned on a history of two dishes, the fit of one pair
\* having raised.
C22_Witness ==
    /\ last.op = "generate_predictions"
    /\ ~result.raised
    /\ FailedFits # {}
    /\ Cardinality(DishesInData) = 2

\* --------------------------------------------------------------- C23
\* C23: every forecast in the list of a call of generate_predictions, of
\* the fallback or of the model path, for either target date and every
\* period, has a factors sequence of at least 1 and at most 4 entries.
C23_FactorsLength ==
    \A p \in Range(result.preds) :
        Len(p.factors) >= 1 /\ Len(p.factors) <= 4

\* A call has returned a list holding a forecast of the fallback and a
\* forecast of the model path with 4 factors, the first of them a weekend
\* boost.
C23_Witness ==
    /\ \E p \in Range(result.preds) : Len(SeriesOf(p)) < 5
    /\ \E p \in Range(result.preds) :
           /\ Len(SeriesOf(p)) >= 5
           /\ Len(p.factors) = 4
           /\ p.factors[1][1] = "Weekend boost"

\* A forecast of the model path with the fewest factors: a weekend target
\* date without boost or decline, in a month without a season.
C23_Fewest ==
    \E p \in Range(result.preds) :
        Len(SeriesOf(p)) >= 5 /\ Len(p.factors) = 2

\* --------------------------------------------------------------- C24
\* The dishes with a row in one of the three periods of the day.
DishesInPeriods ==
    {d \in Dishes : \E b \in Range(Periods) : history.series[d][b] # << >>}

\* C24 as the specification states it: the rows generate_predictions loads
\* have a period among morning, afternoon and evening, the orders of the
\* hours 0 to 5 giving no row; so a call forecasts only dishes with a row
\* in one of the three periods, and when no dish has one it reports
\* predictions_generated = 0 and leaves the predictions table alone.
C24_Original ==
    [][last'.op = "generate_predictions"
          => /\ \A d \in Dishes : history.series[d]["other"] = << >>
             /\ \A p \in Range(result'.preds) : p.dish_id \in DishesInPeriods
             /\ DishesInPeriods = {}
                   => /\ ~result'.raised
                      /\ result'.value.predictions_generated = 0
                      /\ predictions' = predictions]_vars

\* --------------------------------------------------------------- C25
\* The loop tasks that can still begin a sync cycle.
Live == {t \in TaskIds : /\ tasks[t].pc \in {"created", "sleep", "backoff"}
                         /\ ~tasks[t].must_cancel}

\* C25: a loop task that stop_auto_sync has cancelled never begins another
\* sync cycle, also when start_auto_sync has set is_running again and
\* created a new task before the cancelled one has unwound: the task of
\* every cycle of the loop is not cancelled and is the only task that can
\* still begin a cycle.
C25_CancelledNeverCycles ==
    [][last'.op = "loop"
          => /\ ~tasks[last'.task].must_cancel
             /\ Live = {last'.task}]_vars

\* The new task has run a cycle while the task stop_auto_sync cancelled,
\* which ran one before, has not yet unwound.
C25_Witness ==
    /\ last.op = "loop"
    /\ is_running
    /\ \E t \in TaskIds \ {last.task} :
           /\ tasks[t].must_cancel
           /\ tasks[t].pc \in {"sleep", "backoff"}
           /\ tasks[t].cycles > 0

\* --------------------------------------------------------------- C26
\* C26: last_sync changes only at the end of a sync cycle that succeeded,
\* where it takes the time of the cycle; a cycle that fails in the
\* analytics step or in the retention step, the unwinding of a cancelled
\* loop, start_auto_sync, stop_auto_sync, get_status and set_sync_interval
\* leave it as it was.
C26_LastSyncFrame ==
    [][/\ last_sync' # last_sync
          => /\ last'.op \in {"loop", "manual_sync"}
             /\ cycle'.status = "success"
             /\ last_sync' = cycle'.at
       /\ (last'.op \in {"loop", "manual_sync"} /\ cycle'.status = "error")
          => last_sync' = last_sync
       /\ last'.op \in {"unwind", "exit", "start", "stop_call", "stop_return",
                         "get_status", "set_sync_interval"}
          => last_sync' = last_sync]_vars

\* A cycle has failed in its retention step after an earlier cycle had
\* succeeded and set last_sync.
C26_Witness ==
    /\ last.op \in {"loop", "manual_sync"}
    /\ cycle.status = "error"
    /\ cycle.raised = "cleanup"
    /\ last_sync # 0
    /\ last_sync < cycle.at

\* --------------------------------------------------------------- C27
\* The step is a sync cycle whose retention step raises after its forecast
\* step has run.
RetentionFails ==
    cycle' # cycle /\ cycle'.in.a # "raise" /\ cycle'.in.c = "raise"

\* The forecasts the calls of the cycle saved are in the table after it.
ForecastsKept ==
    \A d \in DaysAhead :
        Cardinality(ForecastsOn(predictions', today + d))
            = Generated(cycle'.in.f[d])

\* C27 as stated: when the retention step fails after the forecast step
\* has run, the forecasts saved earlier in the cycle stay in the table, the
\* cycle is entered in the sync log with status error, no success entry
\* is written, and last_sync is unchanged.
C27_Original ==
    [][RetentionFails
          => /\ ForecastsKept
             /\ cycle'.status = "error"
             /\ \E i \in NewLogRows : sync_log'[i].status = "error"
             /\ \A i \in NewLogRows : sync_log'[i].status # "success"
             /\ last_sync' = last_sync]_vars

\* C27, amended: when the retention step fails after the forecast step has
\* run, the forecasts saved earlier in the cycle stay in the table,
\* manual_sync raises the failure, no success entry is written and
\* last_sync is unchanged; the cycle is entered in the sync log with status
\* error unless the insert into sync_log fails too, and then no entry is
\* written.
C27_RetentionFailure ==
    [][RetentionFails
          => /\ ForecastsKept
             /\ cycle'.status = "error" /\ cycle'.raised = "cleanup"
             /\ Cardinality(NewLogRows)
                   = (IF cycle'.in.l = "ok" THEN 1 ELSE 0)
             /\ \A i \in NewLogRows : sync_log'[i].status = "error"
             /\ last_sync' = last_sync]_vars

\* The retention step has failed in a cycle whose forecast calls saved
\* rows, on a store that held rows past the cutoff, and the cycle is in the
\* sync log with status error.
C27_Witness ==
    /\ CycleRan /\ cycle.in.a # "raise" /\ cycle.in.c = "raise"
    /\ \A d \in DaysAhead : RowsFor(today + d) # {}
    /\ RowsFor(today - PredictionDays - 1) # {}
    /\ \E i \in ErrorRows : sync_log[i].id = log_seq

\* --------------------------------------------------------------- C28
\* The failure of the cycle's own steps, "" when none fails.
OwnFailure ==
    IF cycle.in.a = "raise" THEN "analytics"
    ELSE IF cycle.in.c = "raise" THEN "cleanup"
    ELSE ""

\* C28: a failure of the insert into sync_log does not change the outcome
\* of the cycle.  When no step of the cycle fails, manual_sync returns
\* success, last_sync is the time of the cycle and nothing is appended to
\* the error history by manual_sync; when a step fails, manual_sync
\* appends that failure, not the failure of the insert, to the error
\* history and raises it, and last_sync is unchanged.
C28_LogFailureHarmless ==
    (CycleRan /\ cycle.in.l = "raise")
        => /\ OwnFailure = ""
                => /\ cycle.status = "success" /\ cycle.raised = ""
                   /\ last_sync = cycle.at
                   /\ errors = << >>
           /\ OwnFailure # ""
                => /\ cycle.status = "error" /\ cycle.raised = OwnFailure
                   /\ last_sync = 0
                   /\ Len(errors) >= 1
                   /\ errors[1] = [at |-> cycle.at, wrapped |-> TRUE,
                                   e |-> OwnFailure]

\* The retention step of a cycle of the loop failed and the insert of its
\* sync-log entry failed, too: the log has no entry of the cycle.
C28_Witness ==
    /\ CycleRan /\ cycle.in.l = "raise" /\ cycle.in.c = "raise"
    /\ cycle.in.a # "raise"
    /\ cycle.by > 0
    /\ ErrorRows = {}
    /\ Len(errors) = 2

\* A cycle without a failing step has returned success although the
\* insert of its sync-log entry failed.
C28_SuccessUnlogged ==
    /\ CycleRan /\ cycle.in.l = "raise" /\ OwnFailure = ""
    /\ cycle.status = "success" /\ last_sync = cycle.at

\* --------------------------------------------------------------- C29
\* The step is a set_sync_interval that returns.
IntervalSet == last'.op = "set_sync_interval" /\ last'.arg >= 1

\* C29: sync_interval is always a positive multiple of 60 seconds, 3600
\* at first; a set_sync_interval(m) that returns makes
\* get_status().sync_interval_minutes equal to m, and every other step (a
\* rejected call included) leaves sync_interval, and with it the minutes
\* get_status reports, as it is.
C29_IntervalMinutes ==
    [][/\ sync_interval > 0 /\ sync_interval % 60 = 0
       /\ sync_interval' > 0 /\ sync_interval' % 60 = 0
       /\ IntervalSet => GetStatus'.sync_interval_minutes = last'.arg
       /\ ~IntervalSet
            => /\ sync_interval' = sync_interval
               /\ GetStatus'.sync_interval_minutes
                     = GetStatus.sync_interval_minutes]_vars

\* get_status reports the minutes a set_sync_interval has set, a sync cycle
\* having run and the service being stopped.
C29_Witness ==
    /\ last.op = "get_status"
    /\ sync_interval # InitialInterval
    /\ GetStatus.sync_interval_minutes \in MinutesArgs
    /\ cycle.status # "none"
    /\ ~is_running

\* --------------------------------------------------------------- C30
\* The service was started and stopped, the stop has returned and the
\* task it cancelled has finished.
Stopped ==
    /\ ~is_running
    /\ sync_task # 0
    /\ tasks[sync_task].pc \in Finished
    /\ stops = {}

\* C30: the stopped state is not final.  A start_auto_sync called after a
\* start and a completed stop sets is_running and creates a new loop task,
\* and a new task so created executes a sync cycle, unless stop_auto_sync
\* cancels it first (within the cycles the model's run has room for).
C30_Restart ==
    /\ [][(Stopped /\ last'.op = "start")
            => /\ is_running'
               /\ sync_task' # sync_task
               /\ tasks[sync_task'].pc = "absent"
               /\ tasks'[sync_task'].pc = "created"]_vars
    /\ \A t \in TaskIds :
          (/\ tasks[t].pc = "created" /\ ~tasks[t].must_cancel
           /\ \E u \in TaskIds \ {t} : tasks[u].pc \in Finished)
          ~> (tasks[t].cycles > 0 \/ tasks[t].must_cancel
                \/ Cycles >= MaxCycles)

\* The task of a second start has executed a sync cycle, the task of the
\* first start being finished and no stop waiting.
C30_Witness ==
    /\ is_running
    /\ sync_task = 2
    /\ tasks[1].pc \in Finished
    /\ tasks[2].cycles > 0
    /\ stops = {}
    /\ last.op = "loop" /\ last.task = 2
====
